---------------------------- MODULE Spec2Model ----------------------------
(***************************************************************************)
(* Model of src/bin/music_player.py: a script that walks a music           *)
(* directory, sorts the .wav files by modification time, writes an ffmpeg  *)
(* concat manifest, hashes the files' bytes and re-runs the concatenation  *)
(* only when the hash differs from the one stored by an earlier run.       *)
(*                                                                         *)
(* Strings are TLA+ strings, file contents are sequences of bytes, a file  *)
(* that does not exist is NoFile.  MD5 is modelled as an injective map     *)
(* from the byte stream fed to it to a non-empty hex string.               *)
(***************************************************************************)
EXTENDS Integers, Sequences, FiniteSets, TLC

\* ------------------------------------------------------------- bounds
\* longest file content, in bytes
MaxLen == 2
\* modification times are 1..MaxTime
MaxTime == 3
\* bytes returned by one f.read(); stands for the 4096 of the source, scaled
\* down so that files of MaxLen bytes are read in several chunks
ChunkSize == 1

\* the byte values a file holds where calculate_checksum is checked alone
Byte == {0, 1}
\* the byte values a file holds in the run pipeline: there only the equality
\* of two digests matters, and files of different lengths already differ
RunByte == {0}
Times == 1..MaxTime

\* ------------------------------------------------------ configuration
music_dir == "/Volumes/BrahmaSSD/music/AiGen"
playlist_file == "/tmp/ffmpeg_playlist.txt"
checksum_file == "/tmp/playlist_checksum.txt"
extension == ".wav"

\* a path of the music tree at which no file exists
NoFile == [exists |-> FALSE, mtime |-> 0, data |-> <<>>]
\* the playlist or checksum file when it does not exist
NoText == "<absent>"

\* ------------------------------------------------------ the directory
\* os.path.join(root, filename)
join(root, filename) == root \o "/" \o filename

SubDir == join(music_dir, "sub")

\* The directory entries a walk can meet, in the order os.walk visits their
\* directories (top-down: the root before its sub-directory).
WalkDirs == <<music_dir, SubDir>>

NamesIn(dir) ==
    IF dir = music_dir THEN {"a.wav", "c.mp3", "dwav", "e\n.wav"}
    ELSE {"b.wav"}

PathA == join(music_dir, "a.wav")
PathB == join(SubDir, "b.wav")
PathC == join(music_dir, "c.mp3")
PathD == join(music_dir, "dwav")
PathE == join(music_dir, "e\n.wav")
Paths == {PathA, PathB, PathC, PathD, PathE}

\* str.endswith
endswith(s, suffix) ==
    /\ Len(s) >= Len(suffix)
    /\ SubSeq(s, Len(s) - Len(suffix) + 1, Len(s)) = suffix

\* all sequences over S of length at most n
RECURSIVE SeqsUpTo(_, _)
SeqsUpTo(S, n) ==
    IF n = 0 THEN {<<>>}
    ELSE LET shorter == SeqsUpTo(S, n - 1)
         IN  shorter \cup {Append(s, x) : s \in {t \in shorter : Len(t) = n - 1}, x \in S}

\* all orderings of a finite set, as sequences without repetition
RECURSIVE Perms(_)
Perms(S) ==
    IF S = {} THEN {<<>>}
    ELSE UNION {{<<x>> \o p : p \in Perms(S \ {x})} : x \in S}

\* the files of at most n bytes drawn from B
FileRec(B, n) == [exists : {TRUE}, mtime : Times, data : SeqsUpTo(B, n)]

\* ------------------------------------------------- File Enumerator
\* the names os.walk reports as `filenames` of dir: the files that exist there
Existing(f, dir) == {n \in NamesIn(dir) : f[join(dir, n)].exists}

\* os.walk(directory): one (root, filenames) pair per directory, top-down; the
\* order of the names inside one directory is whatever the file system gives.
RECURSIVE WalksFrom(_, _)
WalksFrom(f, i) ==
    IF i > Len(WalkDirs) THEN {<<>>}
    ELSE {<<[root |-> WalkDirs[i], filenames |-> names]>> \o rest :
            names \in Perms(Existing(f, WalkDirs[i])), rest \in WalksFrom(f, i + 1)}

os_walk(f) == WalksFrom(f, 1)

\* the inner loop of get_files_sorted_by_mtime over one directory's names
RECURSIVE collect_dir(_, _, _)
collect_dir(root, filenames, i) ==
    IF i > Len(filenames) THEN <<>>
    ELSE (IF endswith(filenames[i], extension)
          THEN <<join(root, filenames[i])>> ELSE <<>>)
         \o collect_dir(root, filenames, i + 1)

\* the outer loop: files.append(full_path) for every matching name of the walk
RECURSIVE collect(_, _)
collect(walk, i) ==
    IF i > Len(walk) THEN <<>>
    ELSE collect_dir(walk[i].root, walk[i].filenames, 1) \o collect(walk, i + 1)

\* os.path.getmtime
getmtime(f, path) == f[path].mtime

\* insert_sorted with the comparison turned round: the newest file first
RECURSIVE insert_sorted_desc(_, _, _)
insert_sorted_desc(f, s, x) ==
    IF s = <<>> THEN <<x>>
    ELSE IF f[x].mtime > f[Head(s)].mtime THEN <<x>> \o s
    ELSE <<Head(s)>> \o insert_sorted_desc(f, Tail(s), x)

\* one step of a stable sort: x goes behind every element whose key is <= its own
RECURSIVE insert_sorted(_, _, _)
insert_sorted(f, s, x) ==
    IF s = <<>> THEN <<x>>
    ELSE IF getmtime(f, x) < getmtime(f, Head(s)) THEN <<x>> \o s
    ELSE <<Head(s)>> \o insert_sorted(f, Tail(s), x)

\* sorted(files, key=os.path.getmtime): ascending and stable
RECURSIVE sorted(_, _, _)
sorted(f, s, i) ==
    IF i = 0 THEN <<>> ELSE insert_sorted(f, sorted(f, s, i - 1), s[i])

get_files_sorted_by_mtime(f, walk) ==
    LET found == collect(walk, 1) IN sorted(f, found, Len(found))

\* --------------------------------------------------- Playlist Writer
\* open(path, 'w'): the file is truncated, whatever it held
open_w(old) == ""

manifest_line(file) == "file '" \o file \o "'\n"

RECURSIVE write_lines(_, _, _)
write_lines(content, fl, i) ==
    IF i > Len(fl) THEN content
    ELSE write_lines(content \o manifest_line(fl[i]), fl, i + 1)

\* the manifest after generate_playlist(files, playlist_path), given what the
\* file held before
generate_playlist(fl, old) == write_lines(open_w(old), fl, 1)

\* --------------------------------------------------- Checksum Engine
HexDigits == "0123456789abcdef"

\* md5(): a fresh hash object; its state is the byte stream fed so far
md5 == <<>>

\* hash_md5.update(chunk)
update(h, chunk) == h \o chunk

\* hash_md5.hexdigest(): injective in the stream, never empty
RECURSIVE hex_of(_, _)
hex_of(h, i) ==
    IF i > Len(h) THEN ""
    ELSE SubSeq(HexDigits, h[i] + 1, h[i] + 1) \o hex_of(h, i + 1)

hexdigest(h) == "d" \o hex_of(h, 1)

Min(a, b) == IF a <= b THEN a ELSE b

\* f.read(4096) at offset pos: up to ChunkSize bytes, b"" at end of file
read(data, pos) == SubSeq(data, pos + 1, Min(pos + ChunkSize, Len(data)))

\* hash_file without the loop: only the first chunk of a file is hashed
hash_file_once(h, data, pos) ==
    IF read(data, pos) = <<>> THEN h ELSE update(h, read(data, pos))

\* for chunk in iter(lambda: f.read(4096), b""): hash_md5.update(chunk)
RECURSIVE hash_file(_, _, _)
hash_file(h, data, pos) ==
    LET chunk == read(data, pos)
    IN  IF chunk = <<>> THEN h
        ELSE hash_file(update(h, chunk), data, pos + Len(chunk))

\* hash_files with md5() created inside the loop: every file starts a new hash
RECURSIVE hash_files_reset(_, _, _, _)
hash_files_reset(h, fl, f, i) ==
    IF i > Len(fl) THEN h
    ELSE hash_files_reset(hash_file(md5, f[fl[i]].data, 0), fl, f, i + 1)

\* hash_files that also feeds each file's modification time to the hash
RECURSIVE hash_files_mtime(_, _, _, _)
hash_files_mtime(h, fl, f, i) ==
    IF i > Len(fl) THEN h
    ELSE hash_files_mtime(
             update(hash_file(h, f[fl[i]].data, 0), <<f[fl[i]].mtime>>), fl, f, i + 1)

\* for file in files: with open(file, "rb") as f: ...
RECURSIVE hash_files(_, _, _, _)
hash_files(h, fl, f, i) ==
    IF i > Len(fl) THEN h
    ELSE hash_files(hash_file(h, f[fl[i]].data, 0), fl, f, i + 1)

\* calculate_checksum with an early return of '' for an empty list
calculate_checksum_empty(fl, f) ==
    IF fl = <<>> THEN "" ELSE hexdigest(hash_files(md5, fl, f, 1))

calculate_checksum(fl, f) == hexdigest(hash_files(md5, fl, f, 1))

\* ---------------------------------------------- Checksum Persistence
Whitespace == {" ", "\t", "\n", "\r"}

RECURSIVE lstrip(_)
lstrip(s) ==
    IF Len(s) > 0 /\ SubSeq(s, 1, 1) \in Whitespace
    THEN lstrip(SubSeq(s, 2, Len(s))) ELSE s

RECURSIVE rstrip(_)
rstrip(s) ==
    IF Len(s) > 0 /\ SubSeq(s, Len(s), Len(s)) \in Whitespace
    THEN rstrip(SubSeq(s, 1, Len(s) - 1)) ELSE s

\* str.strip()
strip(s) == rstrip(lstrip(s))

\* open(checksum_path, 'w+') in place of 'r': the file is emptied by the read
open_r_truncating(old) == ""

\* read_previous_checksum that never finds the file
read_previous_checksum_none(ck) == ""

\* write_new_checksum that writes its path argument in place of the digest
write_new_checksum_path(checksum, old) == checksum_file

\* write_new_checksum that ends the digest with a line break
write_new_checksum_newline(checksum, old) == checksum \o "\n"

\* open(checksum_path, 'r'): reading leaves the file as it is; a missing file
\* stays missing (FileNotFoundError is caught)
open_r(old) == old

\* the string read_previous_checksum(checksum_path) returns, given the file
read_previous_checksum(ck) == IF ck = NoText THEN "" ELSE strip(ck)

\* the checksum file after write_new_checksum(checksum, checksum_path)
write_new_checksum(checksum, old) == open_w(old) \o checksum

\* ------------------------------------------------------------- state
VARIABLES
    fs,            \* the music tree: path -> file (or NoFile)
    playlist,      \* content of playlist_file, or NoText
    cksum,         \* content of checksum_file, or NoText
    pc,            \* where the current run of the script stands
    files,         \* main's sorted file list
    new_checksum,  \* main's freshly computed digest
    old_checksum,  \* main's digest read from checksum_file
    \* history of the runs, read by the properties only
    seen,          \* <<path, bytes>> of every file hashed by this run
    invoked,       \* whether this run started the concatenation tool
    start_cksum,   \* cksum as it was when this run started
    prev,          \* the previous run: what it hashed, its digest, how it ended
    last_ok        \* what the latest run that completed a concatenation hashed

vars == <<fs, playlist, cksum, pc, files, new_checksum, old_checksum,
          seen, invoked, start_cksum, prev, last_ok>>

locals == <<files, new_checksum, old_checksum>>
history == <<seen, invoked, start_cksum, prev, last_ok>>

NoRun == [ran |-> FALSE, seen |-> <<>>, digest |-> "", outcome |-> "none"]
NoStream == [any |-> FALSE, stream |-> <<>>]

\* <<path, bytes>> for every file of the list, in list order
Contents(fl, f) == [i \in 1..Len(fl) |-> <<fl[i], f[fl[i]].data>>]

\* the bytes of the listed files, one after the other
RECURSIVE Stream(_, _)
Stream(c, i) == IF i > Len(c) THEN <<>> ELSE c[i][2] \o Stream(c, i + 1)

\* how the run that stands at "done" or "failed" ended
Outcome ==
    IF pc = "failed" THEN (IF invoked THEN "tool_failed" ELSE "read_failed")
    ELSE IF invoked THEN "concatenated" ELSE "skipped"

\* ------------------------------------------------------- environment
\* the files other programs create, rewrite and delete between two runs
Mutable == {PathA, PathB}

WriteFile ==
    /\ pc = "idle"
    /\ \E p \in Mutable, r \in FileRec(RunByte, MaxLen) : fs' = [fs EXCEPT ![p] = r]
    /\ UNCHANGED <<playlist, cksum, pc, locals, history>>

DeleteFile ==
    /\ pc = "idle"
    /\ \E p \in Mutable : fs[p].exists /\ fs' = [fs EXCEPT ![p] = NoFile]
    /\ UNCHANGED <<playlist, cksum, pc, locals, history>>

\* ----------------------------------------------------- one run: main
\* The source file ends inside concatenate_files, before main.  The order of
\* the calls, the branch on the two digests and the fatal end of a run whose
\* tool fails follow the design document (sections 2, 4.4, 4.5 and 7); every
\* call is to a function modelled from the source above.
\* files = get_files_sorted_by_mtime(music_dir)
Enumerate ==
    /\ pc = "idle"
    /\ \E walk \in os_walk(fs) : files' = get_files_sorted_by_mtime(fs, walk)
    /\ seen' = Contents(files', fs)
    /\ invoked' = FALSE
    /\ start_cksum' = cksum
    /\ pc' = "listed"
    /\ UNCHANGED <<fs, playlist, cksum, new_checksum, old_checksum, prev, last_ok>>

\* generate_playlist(files, playlist_file)
GeneratePlaylist ==
    /\ pc = "listed"
    /\ playlist' = generate_playlist(files, playlist)
    /\ pc' = "playlisted"
    /\ UNCHANGED <<fs, cksum, locals, history>>

\* new_checksum = calculate_checksum(files)
CalculateChecksum ==
    /\ pc = "playlisted"
    /\ new_checksum' = calculate_checksum(files, fs)
    /\ pc' = "summed"
    /\ UNCHANGED <<fs, playlist, cksum, files, old_checksum, history>>

\* open(file, "rb") raises (the file cannot be read): nothing catches it
ChecksumFails ==
    /\ pc = "playlisted"
    /\ files # <<>>
    /\ pc' = "failed"
    /\ UNCHANGED <<fs, playlist, cksum, locals, history>>

\* old_checksum = read_previous_checksum(checksum_file)
ReadPrevious ==
    /\ pc = "summed"
    /\ old_checksum' = read_previous_checksum(cksum)
    /\ cksum' = open_r(cksum)
    /\ pc' = "compared"
    /\ UNCHANGED <<fs, playlist, files, new_checksum, history>>

\* if new_checksum != old_checksum: the branch main takes
must_concatenate(new, old) == new # old

\* the digests agree: nothing to do
Skip ==
    /\ pc = "compared"
    /\ ~must_concatenate(new_checksum, old_checksum)
    /\ pc' = "done"
    /\ UNCHANGED <<fs, playlist, cksum, locals, history>>

\* concatenate_files(playlist_file, output_file), the tool ends with success
ConcatenateOk ==
    /\ pc = "compared"
    /\ must_concatenate(new_checksum, old_checksum)
    /\ invoked' = TRUE
    /\ last_ok' = [any |-> TRUE, stream |-> Stream(seen, 1)]
    /\ pc' = "concatenated"
    /\ UNCHANGED <<fs, playlist, cksum, locals, seen, start_cksum, prev>>

\* concatenate_files(playlist_file, output_file), the tool fails: fatal
ConcatenateFails ==
    /\ pc = "compared"
    /\ must_concatenate(new_checksum, old_checksum)
    /\ invoked' = TRUE
    /\ pc' = "failed"
    /\ UNCHANGED <<fs, playlist, cksum, locals, seen, start_cksum, prev, last_ok>>

\* write_new_checksum(new_checksum, checksum_file)
WriteChecksum ==
    /\ pc = "concatenated"
    /\ cksum' = write_new_checksum(new_checksum, cksum)
    /\ pc' = "done"
    /\ UNCHANGED <<fs, playlist, locals, history>>

\* the process ends, normally or by the uncaught exception
Exit ==
    /\ pc \in {"done", "failed"}
    /\ prev' = [ran |-> TRUE, seen |-> seen, digest |-> new_checksum,
                outcome |-> Outcome]
    /\ files' = <<>>
    /\ new_checksum' = ""
    /\ old_checksum' = ""
    /\ seen' = <<>>
    /\ invoked' = FALSE
    /\ start_cksum' = NoText
    /\ pc' = "idle"
    /\ UNCHANGED <<fs, playlist, cksum, last_ok>>

StaticFiles ==
    [p \in Paths |->
        IF p = PathC THEN [exists |-> TRUE, mtime |-> 1, data |-> <<>>] ELSE NoFile]

Init ==
    /\ fs \in {[StaticFiles EXCEPT ![PathA] = a, ![PathB] = b] :
                a \in FileRec(RunByte, MaxLen) \cup {NoFile},
                b \in FileRec(RunByte, MaxLen) \cup {NoFile}}
    /\ playlist = NoText
    /\ cksum = NoText
    /\ pc = "idle"
    /\ files = <<>>
    /\ new_checksum = ""
    /\ old_checksum = ""
    /\ seen = <<>>
    /\ invoked = FALSE
    /\ start_cksum = NoText
    /\ prev = NoRun
    /\ last_ok = NoStream

Next ==
    \/ WriteFile
    \/ DeleteFile
    \/ Enumerate
    \/ GeneratePlaylist
    \/ CalculateChecksum
    \/ ChecksumFails
    \/ ReadPrevious
    \/ Skip
    \/ ConcatenateOk
    \/ ConcatenateFails
    \/ WriteChecksum
    \/ Exit

Spec == Init /\ [][Next]_vars

\* ---------------------------------------------- properties of the runs
\* this run has computed its digest
Computed ==
    \/ pc \in {"summed", "compared", "concatenated", "done"}
    \/ pc = "failed" /\ invoked

\* this run has taken the branch on the two digests
Decided ==
    \/ pc \in {"concatenated", "done"}
    \/ pc = "failed" /\ invoked

\* the previous run enumerated the very list this run enumerated: the same
\* paths in the same order with the same bytes
SameListAsPrevious == prev.ran /\ prev.seen = seen

\* C1 as stated: whenever two consecutive runs enumerate the same file list
\* (paths, order, bytes), the second finds its digest equal to the stored one
\* and does not start the concatenation tool.
C1_UnchangedSkips ==
    (Decided /\ SameListAsPrevious)
        => (~invoked /\ new_checksum = old_checksum)

\* C1 amended: whenever two consecutive runs enumerate the same file list and
\* the first of them ended normally (it skipped or completed the
\* concatenation), the second finds its digest equal to the stored one and
\* does not start the concatenation tool.
C1_UnchangedSkipsAfterCompletedRun ==
    (Decided /\ SameListAsPrevious /\ prev.outcome \in {"skipped", "concatenated"})
        => (~invoked /\ new_checksum = old_checksum)

C1_Witness ==
    /\ pc = "done"
    /\ SameListAsPrevious
    /\ prev.outcome = "concatenated"
    /\ Len(seen) = 2
    /\ ~invoked

\* C2: a run that starts with no checksum file and gets as far as comparing
\* the digests reads the empty string as the previous digest, has computed a
\* non-empty digest whatever the file list is (the empty list included), and
\* starts the concatenation tool.
C2_FirstRunConcatenates ==
    start_cksum = NoText =>
        /\ pc \in {"compared", "concatenated", "done", "failed"} /\ Computed
              => (old_checksum = "" /\ new_checksum # "")
        /\ Decided => invoked

C2_Witness ==
    /\ pc = "concatenated"
    /\ start_cksum = NoText
    /\ files = <<>>
    /\ invoked

\* C3: the concatenation tool is started only in a run whose digest differs
\* from the digest the checksum file held when the run started (and from the
\* value read from it); a run whose digest equals the stored one never
\* starts the tool.
C3_ToolOnlyOnDifferentDigest ==
    /\ invoked => (new_checksum # start_cksum /\ new_checksum # old_checksum)
    /\ (Decided /\ new_checksum = start_cksum) => ~invoked

C3_Witness ==
    /\ invoked
    /\ start_cksum # NoText
    /\ files # <<>>

\* C5: two runs that hash the same files with the same bytes in the same
\* order get the same digest, whatever the earlier runs computed or stored
\* and whatever else differs between the two file systems.
C5_ChecksumStable ==
    (Computed /\ SameListAsPrevious /\ prev.outcome # "read_failed")
        => new_checksum = prev.digest

C5_Witness ==
    /\ Computed
    /\ SameListAsPrevious
    /\ prev.outcome = "tool_failed"
    /\ Len(seen) = 2
    /\ start_cksum # NoText
    /\ start_cksum # new_checksum

C10_StoredDigestIsLastSuccess ==
    pc \in {"idle", "done", "failed"} =>
        /\ (cksum # NoText) <=> last_ok.any
        /\ last_ok.any => cksum = hexdigest(last_ok.stream)
        /\ (pc = "done" /\ ~invoked) => cksum = start_cksum

C10_Witness ==
    /\ pc = "idle"
    /\ last_ok.any
    /\ prev.outcome = "tool_failed"
    /\ Stream(prev.seen, 1) # last_ok.stream
    /\ cksum = hexdigest(last_ok.stream)

\* ------------------------------------- the enumerator and the manifest
\* a manifest an earlier run left behind: none, or one of three lines
OldManifests == {NoText, generate_playlist(<<PathA, PathE, PathB>>, NoText)}

\* any tree of empty files: every path absent or present with any time
InitFiles ==
    /\ fs \in [Paths -> {NoFile} \cup FileRec(Byte, 0)]
    /\ playlist \in OldManifests
    /\ cksum = NoText
    /\ pc = "idle"
    /\ files = <<>>
    /\ new_checksum = ""
    /\ old_checksum = ""
    /\ seen = <<>>
    /\ invoked = FALSE
    /\ start_cksum = NoText
    /\ prev = NoRun
    /\ last_ok = NoStream

NextFiles ==
    \/ Enumerate
    \/ GeneratePlaylist

SpecFiles == InitFiles /\ [][NextFiles]_vars

\* the files of the tree that carry the target extension
WavPaths(f) == {p \in Paths : f[p].exists /\ endswith(p, extension)}

DistinctMtimes(f) ==
    \A p, q \in WavPaths(f) : p # q => f[p].mtime # f[q].mtime

\* C6: when the files with the target extension have pairwise distinct
\* modification times, get_files_sorted_by_mtime returns exactly their paths,
\* each once, none with another extension, oldest first.
C6_EnumeratesSortedByMtime ==
    (pc = "listed" /\ DistinctMtimes(fs)) =>
        /\ Len(files) = Cardinality(WavPaths(fs))
        /\ {files[i] : i \in 1..Len(files)} = WavPaths(fs)
        /\ \A i, j \in 1..Len(files) : i < j => fs[files[i]].mtime < fs[files[j]].mtime

C6_Witness ==
    /\ pc = "listed"
    /\ DistinctMtimes(fs)
    /\ files = <<PathB, PathE, PathA>>
    /\ fs[PathC].exists
    /\ fs[PathD].exists

\* the lines of a text: the pieces between its line breaks
RECURSIVE SplitLines(_, _, _)
SplitLines(s, i, cur) ==
    IF i > Len(s) THEN (IF cur = "" THEN <<>> ELSE <<cur>>)
    ELSE IF SubSeq(s, i, i) = "\n" THEN <<cur>> \o SplitLines(s, i + 1, "")
    ELSE SplitLines(s, i + 1, cur \o SubSeq(s, i, i))

\* C8: after generate_playlist the manifest holds exactly one line per entry
\* of the file list, in list order, each of the form file '<path>', nothing
\* left of an earlier manifest, and no line at all for an empty list.
C8_ManifestOneLinePerEntry ==
    pc = "playlisted" =>
        SplitLines(playlist, 1, "") = [i \in 1..Len(files) |-> "file '" \o files[i] \o "'"]

\* ----------------------------------------- calculate_checksum by itself
\* a tree for the checksum: the two .wav files, absent or with any bytes
SumTrees ==
    {[StaticFiles EXCEPT ![PathA] = a, ![PathB] = b] :
        a \in {NoFile} \cup {r \in FileRec(Byte, MaxLen) : r.mtime = 1},
        b \in {NoFile} \cup {r \in FileRec(Byte, MaxLen) : r.mtime = 1}}

\* the lists an enumeration of the tree can give: its .wav files in any order
ListsOf(f) == Perms(WavPaths(f))

InitSum ==
    /\ fs \in SumTrees
    /\ files \in ListsOf(fs)
    /\ seen = Contents(files, fs)
    /\ pc = "playlisted"
    /\ playlist = generate_playlist(files, NoText)
    /\ cksum = NoText
    /\ new_checksum = ""
    /\ old_checksum = ""
    /\ invoked = FALSE
    /\ start_cksum = NoText
    /\ prev = NoRun
    /\ last_ok = NoStream

\* a second call, on another tree and list; the first call's input and digest
\* are remembered
NextCall ==
    /\ pc = "summed"
    /\ ~prev.ran
    /\ prev' = [ran |-> TRUE, seen |-> seen, digest |-> new_checksum, outcome |-> "none"]
    /\ \E f \in SumTrees : \E l \in ListsOf(f) :
          /\ fs' = f
          /\ files' = l
          /\ seen' = Contents(l, f)
          /\ playlist' = generate_playlist(l, playlist)
    /\ new_checksum' = ""
    /\ pc' = "playlisted"
    /\ UNCHANGED <<cksum, old_checksum, invoked, start_cksum, last_ok>>

NextSum ==
    \/ CalculateChecksum
    \/ NextCall

SpecChecksum == InitSum /\ [][NextSum]_vars

\* both calls have returned
BothSummed == pc = "summed" /\ prev.ran

Paths_of(c) == [i \in 1..Len(c) |-> c[i][1]]

\* the two lists differ in the bytes of some file, or hold the same files in
\* another order
Differ(c, d) ==
    \/ \E i \in 1..Len(c), j \in 1..Len(d) : c[i][1] = d[j][1] /\ c[i][2] # d[j][2]
    \/ /\ {c[i][1] : i \in 1..Len(c)} = {d[j][1] : j \in 1..Len(d)}
       /\ Paths_of(c) # Paths_of(d)

\* C4 as stated: two file lists that differ in the bytes of some file or in
\* the order of the files get different digests.
C4_AnyChangeChangesDigest ==
    (BothSummed /\ Differ(prev.seen, seen)) => new_checksum # prev.digest

\* C4 amended: two file lists whose bytes, taken in list order as one stream,
\* differ get different digests (the hash being collision-free).
C4_StreamChangeChangesDigest ==
    (BothSummed /\ Stream(prev.seen, 1) # Stream(seen, 1)) => new_checksum # prev.digest

C4_Witness ==
    /\ BothSummed
    /\ Len(seen) = 2
    /\ prev.seen = <<seen[2], seen[1]>>
    /\ Len(seen[1][2]) = MaxLen
    /\ Stream(prev.seen, 1) # Stream(seen, 1)
    /\ new_checksum # prev.digest

\* C9: the digest is the hash of the one stream of all the files' bytes in
\* list order: chunking and file boundaries do not show, so two lists with
\* the same stream get the same digest.
C9_DigestOfConcatenatedStream ==
    /\ pc = "summed" => new_checksum = hexdigest(Stream(seen, 1))
    /\ (BothSummed /\ Stream(prev.seen, 1) = Stream(seen, 1)) => new_checksum = prev.digest

C9_Witness ==
    /\ BothSummed
    /\ Len(seen) = 2
    /\ Len(prev.seen) = 2
    /\ Len(seen[1][2]) > ChunkSize
    /\ Len(prev.seen[2][2]) > ChunkSize
    /\ prev.seen # seen
    /\ Stream(prev.seen, 1) = Stream(seen, 1)
    /\ new_checksum = prev.digest
=============================================================================
